---- MODULE Spec2Model ----
(***************************************************************************)
(* django-etl: the transformer lifecycle (BaseTransformer.safe_run), the   *)
(* rollback manager (ETLRollbackManager) and the batch executor            *)
(* (BaseTransformer.batch_process_with_retry), as state machines.          *)
(*                                                                         *)
(* Spec      one transformer instance on which safe_run is called several  *)
(*           times, while the wall clock advances.                         *)
(* BatchSpec one call of batch_process_with_retry, one attempt per step.   *)
(* ValidatorSpec one DataQualityValidator: rules are registered, records   *)
(*           and batches validated.                                        *)
(* SessionSpec one run of the management command migrate_legacy_data: the  *)
(*           loop of Command.handle over the selected transformers.        *)
(* StatsSpec one run's calls of the utility methods that keep self.stats.  *)
(* ManagerSpec one ETLRollbackManager whose create_snapshot and            *)
(*           rollback_migration are called directly, between committed     *)
(*           writes to the storage.                                        *)
(***************************************************************************)
EXTENDS Integers, Sequences, FiniteSets, TLC

\* ---------------------------------------------------------------- bounds
MaxPK == 1          \* primary keys 1..MaxPK that run() reads and writes
MaxRec == 2         \* primary keys 1..MaxRec a table can hold
MaxClock == 1       \* wall-clock seconds 0..MaxClock
MaxRuns == 2        \* safe_run calls on the transformer instance
MaxWrites == 1      \* storage writes the run() calls make in all
MaxN == 4           \* items in the data source
MaxB == 3           \* batch sizes 1..MaxB
MaxR == 2           \* config.max_retries in 0..MaxR
MaxProcessCalls == 3 \* process_func calls followed through their scopes
MaxSnapshots == 1   \* create_snapshot calls made on the manager directly
MaxRollbacks == 1   \* rollback and verify calls made on the manager directly
MaxRules == 2       \* rules registered on a validator
MaxRecords == 2     \* records in a batch handed to validate_batch
MaxTransformers == 2 \* transformers discovered for a session
MaxCount == 2       \* records one extract_data or bulk_create call handles
MaxStatOps == 3     \* calls of the statistics-keeping utilities in a run

Tables == {"a"}
PKs == 1..MaxPK
Recs == 1..MaxRec
Vals == {"old", "new"}
Absent == "absent"
\* the values of the class attribute affected_models (a list of models)
AffectedChoices == {<<>>, <<"a">>}

VARIABLES
    \* storage collaborator
    db,               \* table -> pk -> field value, or Absent
    txn,              \* <<>> or <<db at the enclosing transaction.atomic()>>
    clock,            \* time.time() / datetime.now(), in whole seconds
    files,            \* backup artifacts: <<migration id, second>> -> file
    \* BaseTransformer
    errors, warnings, \* self.errors, self.warnings
    metrics,          \* self.profiler.metrics, as sample counts per name
    migration_id,     \* self.migration_id
    affected_models,  \* getattr(self, 'affected_models', [])
    snapshots,        \* self.rollback_manager.snapshots
    \* the safe_run call in progress
    pc, dry_run, enable_rollback, snapshot,
    \* observation of the safe_run call in progress
    pre_db,           \* storage when safe_run was called
    outcome,          \* how the last safe_run ended
    snapshot_calls,   \* create_snapshot calls made by this safe_run
    snapshot_made,    \* create_snapshot calls of this safe_run that returned
    rollback_calls,   \* rollback_migration calls made by this safe_run
    rollback_result,  \* what rollback_migration did in this safe_run
    run_started,      \* run() has been entered by this safe_run
    run_outcome,      \* how run() ended in this safe_run
    pre_errors,       \* self.errors when safe_run was called
    runs, writes,
    \* batch_process_with_retry
    source_n, batch_size, max_retries,
    bpc, results, batch_len, pos, attempt, final,
    calls, sleeps,
    batch_log,        \* per finished batch: its size, failed calls, end
    results_before,   \* results when the current batch was handed on
    \* ETLRollbackManager called directly
    mgr_snapshots,    \* create_snapshot calls made so far
    mgr_rollbacks,    \* rollback_migration and verify_rollback calls so far
    rb,               \* the last rollback_migration call, see NoRollback
    \* DataQualityValidator
    rules,            \* self.rules
    validated,        \* the last validate_record / validate_batch call
    \* Command.handle of migrate_legacy_data
    MigrationLog,     \* TRUE: the model was imported, FALSE: it is None
    s_pc,             \* position in handle
    options,          \* dry_run and enable_rollback of the command line
    transformers_to_run, \* the keys selected, in the order they are run
    s_i,              \* index of the transformer of the current iteration
    s_results,        \* results: key -> entry, NoResult while there is none
    s_success,        \* success and error_message of the current iteration
    log_rows,         \* the rows MigrationLog.objects.create has stored
    log_warnings,     \* "Could not log to database" warnings
    s_report,         \* successful and failed of the final summary
    \* observation of handle
    s_started,        \* the keys whose iteration began, in order
    s_outcomes,       \* key -> how its try block went
    s_instantiated,   \* key -> TransformerClass() calls
    s_safe_runs,      \* key -> arguments of each safe_run call made
    log_failed,       \* the keys whose MigrationLog row could not be stored
    \* the ETL utility methods of BaseTransformer
    stats,            \* self.stats
    stats_high,       \* counter -> the highest value it has held
    stat_ops,         \* utility calls made so far
    \* the transformer of each iteration of handle
    s_rollback,       \* key -> how its automatic rollback went
    s_errors,         \* key -> self.errors of the transformer after safe_run
    s_summary,        \* key -> results[key]["summary"]["status"]
    \* a session over the storage
    instances,        \* TransformerClass() calls of the session so far
    successes,        \* the transformers before this one whose safe_run returned
    committed,        \* the storage as the last of them left it
    session_rollback, \* the session's enable_rollback option
    \* the profiler's scopes
    scopes,           \* the profile_operation scopes that are open, outermost first
    scope_entries,    \* scope entries so far, counted per name like metrics
    raised_exits,     \* the scopes left by an exception so far
    \* other calls on the rollback manager
    verification,     \* the report of the last verify_rollback call
    strategy_call,    \* the last rollback_migration call naming a strategy
    pre_warnings      \* self.warnings when safe_run was called

storeVars == <<db, txn, files>>
selfVars == <<errors, warnings, metrics>>
callVars == <<pc, dry_run, enable_rollback, snapshot, migration_id>>
obsVars == <<pre_db, outcome, snapshot_calls, snapshot_made, rollback_calls,
             rollback_result, run_started, run_outcome, pre_errors, runs, writes>>
lifeVars == <<storeVars, clock, affected_models, snapshots, callVars, obsVars>>
batchVars == <<source_n, batch_size, max_retries, bpc, results, batch_len,
               pos, attempt, final, calls, sleeps, batch_log, results_before>>
rbVars == <<mgr_snapshots, mgr_rollbacks, rb>>
valVars == <<rules, validated>>
sessVars == <<MigrationLog, s_pc, options, transformers_to_run, s_i, s_results,
              s_success, log_rows, log_warnings, s_report, s_started,
              s_outcomes, s_instantiated, s_safe_runs, log_failed>>
statsVars == <<stats, stats_high, stat_ops>>
mgrMoreVars == <<verification, strategy_call>>
sessMoreVars == <<s_rollback, s_errors, s_summary>>
profVars == <<scopes, scope_entries, raised_exits>>
storeSessVars == <<instances, successes, committed, session_rollback>>
moreVars == <<statsVars, mgrMoreVars, sessMoreVars, profVars, storeSessVars>>
extVars == <<rbVars, valVars, sessVars, moreVars, pre_warnings>>
vars == <<lifeVars, selfVars, batchVars, extVars>>

\* ------------------------------------------------------------- storage
\* model.objects.count()
Count(d, t) == Cardinality({p \in Recs : d[t][p] # Absent})

\* serialize('json', model.objects.all()): one object per record, by pk
RECURSIVE SerializeFrom(_, _, _)
SerializeFrom(d, t, p) ==
    IF p > MaxRec THEN <<>>
    ELSE (IF d[t][p] # Absent
          THEN <<[model |-> t, pk |-> p, fields |-> d[t][p]]>>
          ELSE <<>>) \o SerializeFrom(d, t, p + 1)

serialize(d, t) == SerializeFrom(d, t, 1)

\* obj_data.save() of a deserialized object: insert or overwrite by pk
save(d, obj) == [d EXCEPT ![obj.model][obj.pk] = obj.fields]

RECURSIVE SaveFirst(_, _, _)
SaveFirst(d, objs, k) ==
    IF k = 0 \/ objs = <<>> THEN d
    ELSE SaveFirst(save(d, Head(objs)), Tail(objs), k - 1)

\* variant: a block that keeps its writes when an exception leaves it
AtomicExit_KeepsWrites(saved, cur, raised) == cur

\* leaving a transaction.atomic() block: an exception restores the storage
\* to what it was on entry, a normal exit keeps the writes
AtomicExit(saved, cur, raised) == IF raised THEN saved ELSE cur

\* -------------------------------------------------- ETLRollbackManager
NoFile == [state |-> "none", data |-> <<>>]
PartialFile == [state |-> "partial", data |-> <<>>]
FileNames == (0..MaxClock) \X (0..MaxClock)

\* backup_data of _create_backup: one entry per model, in list order
RECURSIVE backup_data(_, _)
backup_data(d, models) ==
    IF models = <<>> THEN <<>>
    ELSE <<[model_name |-> Head(models), objects |-> serialize(d, Head(models))]>>
         \o backup_data(d, Tail(models))

\* record_counts of create_snapshot
record_counts(d, models) ==
    [t \in {models[i] : i \in 1..Len(models)} |-> Count(d, t)]

\* the backup file name: backup_{migration_id}_{now:%Y%m%d_%H%M%S}.json
backup_file(mid, now) == <<mid, now>>

MigrationSnapshot(mid, models, d, now) ==
    [migration_id |-> mid,
     affected_tables |-> models,
     record_counts |-> record_counts(d, models),
     backup_location |-> backup_file(mid, now)]

\* _find_snapshot: the first snapshot of the list with that migration id
RECURSIVE find_snapshot(_, _)
find_snapshot(snaps, mid) ==
    IF snaps = <<>> THEN <<>>
    ELSE IF Head(snaps).migration_id = mid THEN <<Head(snaps)>>
    ELSE find_snapshot(Tail(snaps), mid)

\* every object of a backup file, in the order _restore_from_backup saves them
RECURSIVE backup_objects(_)
backup_objects(data) ==
    IF data = <<>> THEN <<>>
    ELSE Head(data).objects \o backup_objects(Tail(data))

\* self.logger of the rollback manager, set in __init__ and nowhere else
rollback_logger == "None"

\* rollback_migration(migration_id) with the default strategy restore_backup.
\* saved_ok is the number of obj_data.save() calls that succeed before the
\* storage refuses one (all of them when nothing fails).
\* result: "true" (returned True), "false" (returned False), "raised".
rollback_migration_result(snaps, fs, d, mid, saved_ok) ==
    LET found == find_snapshot(snaps, mid) IN
    IF found = <<>> THEN [result |-> "raised", db |-> d]
    ELSE
      LET file == fs[found[1].backup_location]
          objs == backup_objects(file.data)
          restored == file.state = "ok" /\ saved_ok >= Len(objs)
          after == IF file.state = "ok" THEN SaveFirst(d, objs, saved_ok) ELSE d
      IN IF restored
         THEN [result |-> "true", db |-> AtomicExit(d, after, FALSE)]
         ELSE [result |-> IF rollback_logger = "None" THEN "raised" ELSE "false",
               db |-> AtomicExit(d, after, TRUE)]

\* what is observed of a rollback_migration call: the id it was given, the
\* storage before it, the objects of the backup it read, the save() calls
\* that succeeded, and its result ("none": no such call, or another call on
\* the manager or a write to the storage since)
NoRollback(d) ==
    [mid |-> -1, db |-> d, objects |-> 0, saved |-> 0, result |-> "none"]

\* verify_rollback(migration_id): the report it returns
verify_rollback(snaps, mid) ==
    LET found == find_snapshot(snaps, mid) IN
    IF found = <<>>
    THEN [status |-> "error", message |-> "Snapshot not found"]
    ELSE [status |-> "success",
          migration_id |-> mid,
          table_counts |-> found[1].record_counts,
          discrepancies |-> <<>>]

\* no verify_rollback call, or another call or a write since
NoVerification == [status |-> "none"]

\* the strategy names rollback_migration dispatches on
KnownStrategies == {"restore_backup", "delete_new_records"}

\* an exception: its type and what its message names
NoException == [type |-> "none", names |-> "none"]

\* rollback_migration(migration_id, strategy) over a storage where every
\* save() succeeds. result: "true", "false", "None" (the value returned by
\* _delete_new_records) or "raised", and then exc is what reaches the caller.
rollback_migration_strategy(snaps, fs, d, mid, strategy) ==
    LET found == find_snapshot(snaps, mid) IN
    IF found = <<>>
    THEN [result |-> "raised",
          exc |-> [type |-> "ValueError", names |-> "migration_id"], db |-> d]
    ELSE IF strategy = "restore_backup"
    THEN LET r == rollback_migration_result(snaps, fs, d, mid,
                                            Len(backup_objects(fs[found[1].backup_location].data)))
         IN [result |-> r.result,
             exc |-> IF r.result = "raised"
                     THEN [type |-> "AttributeError", names |-> "error"]
                     ELSE NoException,
             db |-> r.db]
    ELSE IF strategy = "delete_new_records"
    THEN [result |-> "None", exc |-> NoException, db |-> AtomicExit(d, d, FALSE)]
    ELSE \* ValueError(strategy) raised inside the try, caught on line 91
         IF rollback_logger = "None"
         THEN [result |-> "raised",
               exc |-> [type |-> "AttributeError", names |-> "error"],
               db |-> AtomicExit(d, d, TRUE)]
         ELSE [result |-> "false", exc |-> NoException,
               db |-> AtomicExit(d, d, TRUE)]

\* no rollback_migration call naming a strategy, or another call or a write
\* since
NoStrategyCall ==
    [strategy |-> "none", found |-> FALSE, result |-> "none",
     exc |-> NoException, changed |-> FALSE]

\* ------------------------------------------------------ BaseTransformer
\* variant: the dry-run test of line 58 left out
ShouldSnapshot_IgnoresDryRun(er, dr, models) == er /\ models # <<>>

\* safe_run lines 58-61: is create_snapshot called?
ShouldSnapshot(er, dr, models) == er /\ ~dr /\ models # <<>>

\* variant: line 88 testing enable_rollback alone
ShouldRollback_IgnoresSnapshot(snap, er) == er

\* safe_run line 88: is the automatic rollback attempted?
ShouldRollback(snap, er) == snap # <<>> /\ er

\* variant: the failed snapshot recorded as an error
snapshot_failure_LogsError(ws, es) ==
    [warnings |-> ws,
     errors |-> Append(es, "Could not create rollback snapshot")]

\* safe_run lines 68-69: the handler of an exception of create_snapshot
snapshot_failure(ws, es) ==
    [warnings |-> Append(ws, "Could not create rollback snapshot"),
     errors |-> es]

\* variant: an exception raised by the rollback replaces the original one
Reraised_RollbackError(original, rollback_outcome) ==
    IF rollback_outcome = "raised" THEN "rollback_error" ELSE original

\* safe_run line 99: the exception that leaves safe_run
Reraised(original, rollback_outcome) == original

\* log_warning / log_error
log_warning(ws, m) == Append(ws, m)
log_error(es, m) == Append(es, m)

\* profile_operation: one sample appended when the scope is left
profile_total(m) == [m EXCEPT !.total_migration = @ + 1]
profile_attempt(m, a) == [m EXCEPT !.attempts[a] = @ + 1]

\* the names profile_operation is entered with: "total_migration" by
\* safe_run, f"batch_processing_attempt_{attempt}" by the batch executor
TotalScope == [op |-> "total_migration", n |-> 0]
AttemptScope(a) == [op |-> "batch_processing_attempt", n |-> a]

\* variant: the sample appended after the yield instead of in the finally
profile_operation_OnlyOnReturn(m, scope, raised) ==
    IF raised THEN m
    ELSE IF scope.op = "total_migration" THEN profile_total(m)
    ELSE profile_attempt(m, scope.n)

\* profile_operation leaving its scope: the finally clause appends one sample
\* under the scope's name, whether the body returned or raised
profile_operation(m, scope, raised) ==
    IF scope.op = "total_migration" THEN profile_total(m)
    ELSE profile_attempt(m, scope.n)

\* one more entry under the scope's name
scope_entered(e, scope) ==
    IF scope.op = "total_migration" THEN [e EXCEPT !.total_migration = @ + 1]
    ELSE [e EXCEPT !.attempts[scope.n] = @ + 1]

NoOutcome == [kind |-> "none", exc |-> "none"]

\* the results dictionary of batch_process_with_retry, lines 424-430
ZeroResults ==
    [total_batches |-> 0, successful_batches |-> 0, failed_batches |-> 0,
     retried_batches |-> 0, total_records |-> 0]

\* -------------------------------------------------- DataQualityValidator
Fields == {"f", "g"}
Missing == "missing"                  \* the record has no such key
FieldValues == {"x", Missing}
Records == [Fields -> FieldValues]
Severities == {"ERROR", "WARNING", "INFO"}
\* the predicates a rule is registered with, by __name__
RuleFuncs == {"required", "never", "strict"}
Rules == [field : Fields, rule_func : RuleFuncs, severity : Severities]

\* record.get(field)
record_get(record, field) ==
    IF record[field] = Missing THEN "None" ELSE record[field]

\* rule['rule_func'](value): what the call returns, or the message of the
\* exception it raises.
\*   required = lambda v: v is not None
\*   never    = lambda v: False
\*   strict   = lambda v: len(v) > 0      (TypeError on None)
rule_func(f, value) ==
    CASE f = "required" -> [raised |-> FALSE, value |-> value # "None", exc |-> ""]
      [] f = "never" -> [raised |-> FALSE, value |-> FALSE, exc |-> ""]
      [] f = "strict" ->
            IF value = "None"
            THEN [raised |-> TRUE, value |-> FALSE, exc |-> "NoneType has no len()"]
            ELSE [raised |-> FALSE, value |-> TRUE, exc |-> ""]

\* add_rule(field, rule_func, severity) with message and name left empty:
\* the rule is named after the function
new_rule(field, f, severity) ==
    [field |-> field, rule_func |-> f, severity |-> severity,
     message |-> "", name |-> f]

\* variant: the exception branch keeping the severity of the rule
rule_result_KeepsSeverity(rule, value) ==
    LET c == rule_func(rule.rule_func, value) IN
    [field |-> rule.field, value |-> value,
     is_valid |-> IF c.raised THEN FALSE ELSE c.value,
     severity |-> rule.severity,
     message |-> IF c.raised THEN <<"Validation error: ", c.exc>>
                 ELSE IF rule.message # "" THEN <<rule.message>>
                 ELSE <<"Validation failed for ", rule.field>>,
     rule_name |-> rule.name]

\* validate_record lines 51-75: the ValidationResult of one rule
rule_result(rule, value) ==
    LET c == rule_func(rule.rule_func, value) IN
    IF c.raised
    THEN [field |-> rule.field, value |-> value, is_valid |-> FALSE,
          severity |-> "ERROR",
          message |-> <<"Validation error: ", c.exc>>,
          rule_name |-> rule.name]
    ELSE [field |-> rule.field, value |-> value, is_valid |-> c.value,
          severity |-> rule.severity,
          message |-> IF rule.message # "" THEN <<rule.message>>
                      ELSE <<"Validation failed for ", rule.field>>,
          rule_name |-> rule.name]

\* variant: the loop left at the first failing result
RECURSIVE validate_record_StopsAtFailure(_, _)
validate_record_StopsAtFailure(rs, record) ==
    IF rs = <<>> THEN <<>>
    ELSE LET r == rule_result(Head(rs), record_get(record, Head(rs).field)) IN
         IF r.is_valid THEN <<r>> \o validate_record_StopsAtFailure(Tail(rs), record)
         ELSE <<r>>

\* validate_record(record): the loop over self.rules
RECURSIVE validate_record(_, _)
validate_record(rs, record) ==
    IF rs = <<>> THEN <<>>
    ELSE <<rule_result(Head(rs), record_get(record, Head(rs).field))>>
         \o validate_record(Tail(rs), record)

has_invalid(record_results, severity) ==
    \E k \in 1..Len(record_results) :
        record_results[k].severity = severity /\ ~record_results[k].is_valid

\* variant: the warning test made before the error test
classify_WarningsFirst(record_results) ==
    IF has_invalid(record_results, "WARNING") THEN "records_with_warnings"
    ELSE IF has_invalid(record_results, "ERROR") THEN "records_with_errors"
    ELSE "valid_records"

\* validate_batch lines 94-102: the counter a record is added to
classify(record_results) ==
    IF has_invalid(record_results, "ERROR") THEN "records_with_errors"
    ELSE IF has_invalid(record_results, "WARNING") THEN "records_with_warnings"
    ELSE "valid_records"

\* validate_batch(records): the summary after the loop over the records
RECURSIVE validate_batch_from(_, _, _)
validate_batch_from(rs, records, summary) ==
    IF records = <<>> THEN summary
    ELSE LET record_results == validate_record(rs, Head(records))
             class == classify(record_results)
         IN validate_batch_from(rs, Tail(records),
               [summary EXCEPT
                  ![class] = @ + 1,
                  !.validation_results = @ \o record_results])

validate_batch(rs, records) ==
    validate_batch_from(rs, records,
        [total_records |-> Len(records), valid_records |-> 0,
         records_with_errors |-> 0, records_with_warnings |-> 0,
         validation_results |-> <<>>])

NoCall == [op |-> "none", records |-> <<>>, out |-> <<>>]

\* ------------------------------------------------------- Command.handle
TransformerKeys == 1..MaxTransformers

\* transformers_to_run, lines 211-224: every discovered transformer, or the
\* keys of --only that were discovered, in the order given
Selections ==
    {sel \in UNION {[1..n -> TransformerKeys] : n \in 0..MaxTransformers} :
        \A a, b \in 1..Len(sel) : a # b => sel[a] # sel[b]}

\* how the try block of one iteration goes, lines 236-296:
\*   init_raises     TransformerClass() raises
\*   run_raises      safe_run raises
\*   summary_raises  safe_run returned, get_migration_summary raises
\*   returns         the block is left normally
TryOutcomes == {"init_raises", "run_raises", "summary_raises", "returns"}

NoResult == [success |-> FALSE, error |-> "no entry"]
NoReport == [successful |-> -1, failed |-> -1]

\* results[key] as the try block or its handler leaves it
try_result(o) ==
    IF o = "returns" THEN [success |-> TRUE, error |-> ""]
    ELSE [success |-> FALSE, error |-> o]

\* the safe_run calls of one iteration: none when the constructor raised;
\* line 250 passes dry_run and enable_rollback and not dry_run
safe_run_calls(o, opts) ==
    IF o = "init_raises" THEN <<>>
    ELSE <<[dry_run |-> opts.dry_run,
            enable_rollback |-> opts.enable_rollback /\ ~opts.dry_run]>>

\* how the automatic rollback of safe_run went (base.py 88-97): not
\* attempted, rollback_migration returned True, or it raised
RollbackOutcomes == {"none", "true", "raised"}

\* an automatic rollback can be attempted only when safe_run raised and was
\* called with enable_rollback, which line 250 passes as
\* enable_rollback and not dry_run
rollback_possible(o, opts) ==
    o = "run_raises" /\ opts.enable_rollback /\ ~opts.dry_run

\* self.errors of the transformer when the try block is left: the log_error
\* of a batch that used up its retries (base.py 463), str(e) of the
\* exception of run (line 82) and the log_error of a rollback that raised
\* (line 97)
safe_run_errors(o, r, batch_failed) ==
    (IF batch_failed THEN <<"Batch processing failed">> ELSE <<>>)
    \o (IF o = "run_raises" THEN <<"run_error">> ELSE <<>>)
    \o (IF o = "run_raises" /\ r = "raised" THEN <<"Rollback failed">> ELSE <<>>)

\* variant: the status not looking at self.errors
get_migration_summary_status_IgnoresErrors(errs) == "completed"

\* the status of get_migration_summary, base.py line 498
get_migration_summary_status(errs) ==
    IF errs = <<>> THEN "completed" ELSE "failed"

\* results[key]["summary"]["status"]: handle asks for the summary only when
\* safe_run returned (line 256) and stores it on line 258
summary_status(o, errs) ==
    IF o = "returns" THEN get_migration_summary_status(errs) ELSE "none"

\* variant: the dry-run test of line 299 left out
should_log_IgnoresDryRun(ml, dry) == ml

\* line 299: is the outcome handed to MigrationLog?
should_log(ml, dry) == ml /\ ~dry

\* variant: a failed row creation recorded as the transformer's failure
log_outcome_MasksResult(res, warns, key, created) ==
    IF created THEN [results |-> res, warnings |-> warns]
    ELSE [results |-> [res EXCEPT ![key] = [success |-> FALSE, error |-> "log"]],
          warnings |-> warns + 1]

\* lines 300-314: MigrationLog.objects.create returns, or raises and the
\* handler warns
log_outcome(res, warns, key, created) ==
    IF created THEN [results |-> res, warnings |-> warns]
    ELSE [results |-> res, warnings |-> warns + 1]

\* variant: the loop left after a failed transformer
next_transformer_StopsOnFailure(i, n, success) ==
    IF i < n /\ success THEN "try" ELSE "summary"

\* the for loop of line 229: another iteration, or the final summary
next_transformer(i, n, success) == IF i < n THEN "try" ELSE "summary"

SessionIdle ==
    /\ s_pc = "idle"
    /\ options = [dry_run |-> FALSE, enable_rollback |-> FALSE]
    /\ transformers_to_run = <<>>
    /\ s_i = 0
    /\ s_results = [k \in TransformerKeys |-> NoResult]
    /\ s_success = [success |-> TRUE, error_message |-> ""]
    /\ log_rows = <<>> /\ log_warnings = 0
    /\ s_report = NoReport
    /\ s_started = <<>>
    /\ s_outcomes = [k \in TransformerKeys |-> "none"]
    /\ s_instantiated = [k \in TransformerKeys |-> 0]
    /\ s_safe_runs = [k \in TransformerKeys |-> <<>>]
    /\ log_failed = {}
    /\ s_rollback = [k \in TransformerKeys |-> "none"]
    /\ s_errors = [k \in TransformerKeys |-> <<>>]
    /\ s_summary = [k \in TransformerKeys |-> "none"]

\* ------------------------------------------------- ETL utility methods
\* the keys of self.stats the utility methods write
Counters == {"total_extracted", "created", "existing"}

\* self.stats = defaultdict(int): a counter not yet written reads 0
NoStats == [k \in Counters |-> 0]

\* extract_data line 156, with total_count records found
stats_extract_data(st, total_count) ==
    [st EXCEPT !.total_extracted = total_count]

\* bulk_create_with_logging lines 194-215: total instances handed over,
\* created_count of them in batches that were created
stats_bulk_create(st, total, created_count) ==
    IF total = 0 THEN st ELSE [st EXCEPT !.created = created_count]

\* get_or_create_with_logging lines 361-379
stats_get_or_create(st, o) ==
    CASE o = "created" -> [st EXCEPT !.created = @ + 1]
      [] o = "existing" -> [st EXCEPT !.existing = @ + 1]
      [] o = "raises" -> st

high_water(high, st) ==
    [k \in Counters |-> IF st[k] > high[k] THEN st[k] ELSE high[k]]

RECURSIVE log_errors(_, _, _)
log_errors(es, m, n) == IF n = 0 THEN es ELSE log_errors(log_error(es, m), m, n - 1)

\* ------------------------------------------------------------ lifecycle
LifeFresh ==
    /\ txn = <<>>
    /\ clock = 0
    /\ files = [f \in FileNames |-> NoFile]
    /\ errors = <<>> /\ warnings = <<>>
    /\ metrics = [total_migration |-> 0, attempts |-> [a \in 0..MaxR |-> 0]]
    /\ migration_id = -1
    /\ snapshots = <<>>
    /\ pc = "idle" /\ dry_run = FALSE /\ enable_rollback = FALSE
    /\ snapshot = <<>>
    /\ pre_db = db
    /\ outcome = NoOutcome
    /\ snapshot_calls = 0 /\ snapshot_made = 0
    /\ rollback_calls = 0 /\ rollback_result = "none"
    /\ run_started = FALSE /\ run_outcome = "none"
    /\ pre_errors = <<>>
    /\ runs = 0 /\ writes = 0
    /\ mgr_snapshots = 0 /\ mgr_rollbacks = 0
    /\ rb = NoRollback(db)
    /\ rules = <<>> /\ validated = NoCall
    /\ SessionIdle
    /\ stats = NoStats /\ stats_high = NoStats /\ stat_ops = 0
    /\ verification = NoVerification /\ strategy_call = NoStrategyCall
    /\ scopes = <<>> /\ scope_entries = metrics /\ raised_exits = 0
    /\ instances = 0 /\ successes = 0 /\ committed = db
    /\ session_rollback = FALSE
    /\ pre_warnings = <<>>

BatchIdle ==
    /\ source_n = 0 /\ batch_size = 1 /\ max_retries = 0
    /\ bpc = "idle"
    /\ results = ZeroResults
    /\ batch_len = 0 /\ pos = 0 /\ attempt = 0 /\ final = FALSE
    /\ calls = 0 /\ sleeps = 0 /\ batch_log = <<>>
    /\ results_before = results

\* a transformer just constructed, over any storage
Init ==
    /\ db \in {d \in [Tables -> [Recs -> {"old", Absent}]] :
                  \A t \in Tables, p \in Recs \ PKs : d[t][p] = Absent}
    /\ affected_models \in AffectedChoices
    /\ LifeFresh
    /\ BatchIdle
    /\ MigrationLog = FALSE

\* the wall clock moves on. The clock is read by safe_run (line 50) and by
\* _create_backup (line 62), so a second that passes elsewhere is one that
\* passes before the next of these reads.
Tick ==
    /\ clock < MaxClock
    /\ pc \in {"idle", "snapshot"}
    /\ clock' = clock + 1
    /\ UNCHANGED <<storeVars, affected_models, snapshots, callVars, obsVars,
                   selfVars, batchVars, extVars>>

\* safe_run(dry_run=dr, enable_rollback=er), lines 50-58
safe_run(dr, er) ==
    /\ pc = "idle"
    /\ runs < MaxRuns
    /\ runs' = runs + 1
    /\ migration_id' = clock
    /\ dry_run' = dr /\ enable_rollback' = er
    /\ snapshot' = <<>>
    /\ pre_db' = db
    /\ outcome' = NoOutcome
    /\ snapshot_calls' = 0 /\ snapshot_made' = 0
    /\ rollback_calls' = 0 /\ rollback_result' = "none"
    /\ run_started' = FALSE /\ run_outcome' = "none"
    /\ pre_errors' = errors
    /\ pre_warnings' = warnings
    /\ pc' = IF ShouldSnapshot(er, dr, affected_models) THEN "snapshot" ELSE "run"
    /\ UNCHANGED <<storeVars, clock, affected_models, snapshots, selfVars,
                   batchVars, rbVars, valVars, sessVars, moreVars, writes>>

\* create_snapshot returns: counts recorded, backup written, snapshot appended
create_snapshot ==
    /\ pc = "snapshot"
    /\ LET s == MigrationSnapshot(migration_id, affected_models, db, clock) IN
         /\ files' = [files EXCEPT ![s.backup_location] =
                         [state |-> "ok", data |-> backup_data(db, affected_models)]]
         /\ snapshots' = Append(snapshots, s)
         /\ snapshot' = <<s>>
    /\ snapshot_calls' = snapshot_calls + 1
    /\ snapshot_made' = snapshot_made + 1
    /\ pc' = "run"
    /\ UNCHANGED <<db, txn, clock, affected_models, selfVars, batchVars, extVars,
                   dry_run, enable_rollback, migration_id,
                   pre_db, pre_errors, outcome, rollback_calls, rollback_result,
                   run_started, run_outcome, runs, writes>>

\* create_snapshot raises (a count, the serialisation or the file write
\* fails); truncated: the backup file was opened for writing before that.
\* safe_run lines 68-69 turn the exception into a warning.
create_snapshot_fails(truncated) ==
    /\ pc = "snapshot"
    /\ files' = IF truncated
                THEN [files EXCEPT ![backup_file(migration_id, clock)] = PartialFile]
                ELSE files
    /\ LET h == snapshot_failure(warnings, errors) IN
         /\ warnings' = h.warnings
         /\ errors' = h.errors
    /\ snapshot_calls' = snapshot_calls + 1
    /\ pc' = "run"
    /\ UNCHANGED <<db, txn, clock, affected_models, snapshots, metrics,
                   batchVars, extVars, dry_run, enable_rollback, snapshot, migration_id,
                   pre_db, outcome, snapshot_made, rollback_calls,
                   rollback_result, run_started, run_outcome, pre_errors, runs, writes>>

\* lines 71-78: the profiled scope is entered, and outside a dry run the
\* transaction; run() starts
run_enter ==
    /\ pc = "run"
    /\ txn' = IF dry_run THEN <<>> ELSE <<db>>
    /\ run_started' = TRUE
    /\ pc' = "running"
    /\ UNCHANGED <<db, files, clock, affected_models, snapshots, selfVars,
                   batchVars, extVars, dry_run, enable_rollback, snapshot, migration_id,
                   pre_db, pre_errors, outcome, snapshot_calls, snapshot_made,
                   rollback_calls, rollback_result, run_outcome, runs, writes>>

\* run() creates, updates (v in Vals) or deletes (v = Absent) a record
run_write(t, p, v) ==
    /\ pc = "running"
    /\ writes < MaxWrites
    /\ db[t][p] # v
    /\ db' = [db EXCEPT ![t][p] = v]
    /\ writes' = writes + 1
    /\ UNCHANGED <<txn, files, clock, affected_models, snapshots, selfVars,
                   batchVars, extVars, callVars, pre_db, pre_errors, outcome, snapshot_calls,
                   snapshot_made, rollback_calls, rollback_result,
                   run_started, run_outcome, runs>>

\* run() returns: lines 78-81, with _log_completion_stats
run_returns ==
    /\ pc = "running"
    /\ db' = IF txn = <<>> THEN db ELSE AtomicExit(txn[1], db, FALSE)
    /\ txn' = <<>>
    /\ metrics' = profile_total(metrics)
    /\ warnings' = IF errors # <<>>
                   THEN log_warning(warnings, "Completed with errors")
                   ELSE warnings
    /\ outcome' = [kind |-> "returned", exc |-> "none"]
    /\ run_outcome' = "returned"
    /\ pc' = "idle"
    /\ UNCHANGED <<files, clock, affected_models, snapshots, errors, batchVars, extVars,
                   dry_run, enable_rollback, snapshot, migration_id,
                   pre_db, pre_errors, snapshot_calls, snapshot_made,
                   rollback_calls, rollback_result, run_started, runs, writes>>

\* run() raises: the transaction (if any) is left with the exception, the
\* profiler scope is left, lines 83-88
run_raises ==
    /\ pc = "running"
    /\ db' = IF txn = <<>> THEN db ELSE AtomicExit(txn[1], db, TRUE)
    /\ txn' = <<>>
    /\ metrics' = profile_total(metrics)
    /\ errors' = Append(errors, "run_error")
    /\ run_outcome' = "raised"
    /\ IF ShouldRollback(snapshot, enable_rollback)
       THEN /\ pc' = "rollback"
            /\ outcome' = outcome
       ELSE /\ pc' = "idle"
            /\ outcome' = [kind |-> "raised", exc |-> Reraised("run_error", "none")]
    /\ UNCHANGED <<files, clock, affected_models, snapshots, warnings, batchVars, extVars,
                   dry_run, enable_rollback, snapshot, migration_id,
                   pre_db, pre_errors, snapshot_calls, snapshot_made,
                   rollback_calls, rollback_result, run_started, runs, writes>>

\* lines 89-99: the automatic rollback, its outcome logged, and the raise
automatic_rollback(saved_ok) ==
    /\ pc = "rollback"
    /\ LET r == rollback_migration_result(snapshots, files, db, migration_id, saved_ok) IN
         /\ db' = r.db
         /\ rollback_result' = r.result
         /\ errors' = CASE r.result = "true" -> errors
                        [] r.result = "false" -> log_error(errors, "Automatic rollback failed")
                        [] OTHER -> log_error(errors, "Rollback failed")
         /\ outcome' = [kind |-> "raised", exc |-> Reraised("run_error", r.result)]
    /\ rollback_calls' = rollback_calls + 1
    /\ pc' = "idle"
    /\ UNCHANGED <<txn, files, clock, affected_models, snapshots, warnings,
                   metrics, batchVars, extVars, dry_run, enable_rollback, snapshot,
                   migration_id, pre_db, pre_errors, snapshot_calls, snapshot_made,
                   run_started, run_outcome, runs, writes>>

Next ==
    \/ Tick
    \/ \E dr \in BOOLEAN, er \in BOOLEAN : safe_run(dr, er)
    \/ create_snapshot
    \/ \E truncated \in BOOLEAN : create_snapshot_fails(truncated)
    \/ run_enter
    \/ \E t \in Tables, p \in PKs, v \in Vals \cup {Absent} : run_write(t, p, v)
    \/ run_returns
    \/ run_raises
    \/ \E k \in 0..(MaxRec * Cardinality(Tables)) : automatic_rollback(k)

Spec == Init /\ [][Next]_vars


\* ---------------------------------------- the rollback manager, directly
\* an ETLRollbackManager over any storage, no snapshot taken yet
ManagerInit ==
    /\ db \in [Tables -> [Recs -> {"old", Absent}]]
    /\ affected_models \in AffectedChoices \ {<<>>}
    /\ LifeFresh
    /\ BatchIdle
    /\ MigrationLog = FALSE

\* the migration ids a caller can hold: safe_run forms them from the second
\* in which a run started (base.py line 51). A snapshot is asked for with
\* the id just formed, a rollback with an id formed at any time so far.
NewMigrationIds == {clock}
MigrationIds == 0..clock

\* create_snapshot(mid, name, affected_models) returns
mgr_create_snapshot(mid) ==
    /\ mgr_snapshots < MaxSnapshots
    /\ mgr_snapshots' = mgr_snapshots + 1
    /\ LET s == MigrationSnapshot(mid, affected_models, db, clock) IN
         /\ files' = [files EXCEPT ![s.backup_location] =
                         [state |-> "ok", data |-> backup_data(db, affected_models)]]
         /\ snapshots' = Append(snapshots, s)
    /\ rb' = NoRollback(db)
    /\ verification' = NoVerification /\ strategy_call' = NoStrategyCall
    /\ UNCHANGED <<db, txn, clock, affected_models, callVars, obsVars,
                   selfVars, batchVars, mgr_rollbacks, valVars, sessVars, statsVars, sessMoreVars, profVars, storeSessVars, pre_warnings>>

\* create_snapshot(mid, name, affected_models) raises; truncated: the backup
\* file was opened for writing before that
mgr_create_snapshot_fails(mid, truncated) ==
    /\ mgr_snapshots < MaxSnapshots
    /\ mgr_snapshots' = mgr_snapshots + 1
    /\ files' = IF truncated
                THEN [files EXCEPT ![backup_file(mid, clock)] = PartialFile]
                ELSE files
    /\ rb' = NoRollback(db)
    /\ verification' = NoVerification /\ strategy_call' = NoStrategyCall
    /\ UNCHANGED <<db, txn, clock, affected_models, snapshots, callVars, obsVars,
                   selfVars, batchVars, mgr_rollbacks, valVars, sessVars, statsVars, sessMoreVars, profVars, storeSessVars, pre_warnings>>

\* a committed write to an affected table between two calls of the manager:
\* a record created, updated (v in Vals) or deleted (v = Absent)
storage_write(t, p, v) ==
    /\ writes < MaxWrites
    /\ db[t][p] # v
    /\ db' = [db EXCEPT ![t][p] = v]
    /\ writes' = writes + 1
    /\ rb' = NoRollback(db')
    /\ verification' = NoVerification /\ strategy_call' = NoStrategyCall
    /\ UNCHANGED <<txn, files, clock, affected_models, snapshots, callVars,
                   pre_db, outcome, snapshot_calls, snapshot_made, rollback_calls,
                   rollback_result, run_started, run_outcome, pre_errors, runs,
                   selfVars, batchVars, mgr_snapshots, mgr_rollbacks, valVars, sessVars, statsVars, sessMoreVars, profVars, storeSessVars, pre_warnings>>

\* the objects rollback_migration(mid) would read from the backup file
restorable(snaps, fs, mid) ==
    LET found == find_snapshot(snaps, mid) IN
    IF found = <<>> \/ fs[found[1].backup_location].state # "ok" THEN <<>>
    ELSE backup_objects(fs[found[1].backup_location].data)

\* rollback_migration(mid), strategy restore_backup; saved_ok as above
mgr_rollback_migration(mid, saved_ok) ==
    /\ mgr_rollbacks < MaxRollbacks
    /\ saved_ok <= Len(restorable(snapshots, files, mid))
    /\ mgr_rollbacks' = mgr_rollbacks + 1
    /\ LET r == rollback_migration_result(snapshots, files, db, mid, saved_ok) IN
          /\ db' = r.db
          /\ rb' = [mid |-> mid, db |-> db,
                    objects |-> Len(restorable(snapshots, files, mid)),
                    saved |-> saved_ok, result |-> r.result]
    /\ verification' = NoVerification /\ strategy_call' = NoStrategyCall
    /\ UNCHANGED <<txn, files, clock, affected_models, snapshots, callVars, obsVars,
                   selfVars, batchVars, mgr_snapshots, valVars, sessVars, statsVars, sessMoreVars, profVars, storeSessVars, pre_warnings>>

\* verify_rollback(mid)
mgr_verify_rollback(mid) ==
    /\ mgr_rollbacks < MaxRollbacks
    /\ mgr_rollbacks' = mgr_rollbacks + 1
    /\ verification' = verify_rollback(snapshots, mid)
    /\ rb' = NoRollback(db)
    /\ strategy_call' = NoStrategyCall
    /\ UNCHANGED <<lifeVars, selfVars, batchVars, mgr_snapshots,
                   valVars, sessVars, statsVars, sessMoreVars, profVars, storeSessVars, pre_warnings>>

\* the strategy names a caller passes besides the default: the other known
\* one and one that rollback_migration does not know
OtherStrategies == {"delete_new_records", "purge"}

\* rollback_migration(mid, strategy)
mgr_rollback_strategy(mid, strategy) ==
    /\ mgr_rollbacks < MaxRollbacks
    /\ mgr_rollbacks' = mgr_rollbacks + 1
    /\ LET r == rollback_migration_strategy(snapshots, files, db, mid, strategy) IN
          /\ db' = r.db
          /\ strategy_call' = [strategy |-> strategy,
                               found |-> find_snapshot(snapshots, mid) # <<>>,
                               result |-> r.result, exc |-> r.exc,
                               changed |-> r.db # db]
    /\ rb' = NoRollback(db')
    /\ verification' = NoVerification
    /\ UNCHANGED <<txn, files, clock, affected_models, snapshots, callVars, obsVars,
                   selfVars, batchVars, mgr_snapshots, valVars, sessVars,
                   statsVars, sessMoreVars, profVars, storeSessVars, pre_warnings>>

ManagerNext ==
    \/ Tick
    \/ \E mid \in NewMigrationIds : mgr_create_snapshot(mid)
    \/ \E mid \in NewMigrationIds, truncated \in BOOLEAN :
          mgr_create_snapshot_fails(mid, truncated)
    \/ \E t \in Tables, p \in Recs, v \in Vals \cup {Absent} : storage_write(t, p, v)
    \/ \E mid \in MigrationIds, k \in 0..(MaxRec * Cardinality(Tables)) :
          mgr_rollback_migration(mid, k)

ManagerSpec == ManagerInit /\ [][ManagerNext]_vars

\* the manager called by an operator who verifies and names strategies:
\* snapshots, writes in between, restores in which every save() succeeds,
\* verify_rollback and rollback_migration with a strategy
VerifyNext ==
    \/ Tick
    \/ \E mid \in NewMigrationIds : mgr_create_snapshot(mid)
    \/ \E t \in Tables, p \in Recs, v \in Vals \cup {Absent} : storage_write(t, p, v)
    \/ \E mid \in MigrationIds :
          mgr_rollback_migration(mid, Len(restorable(snapshots, files, mid)))
    \/ \E mid \in MigrationIds : mgr_verify_rollback(mid)
    \/ \E mid \in MigrationIds, strategy \in OtherStrategies :
          mgr_rollback_strategy(mid, strategy)

VerifySpec == ManagerInit /\ [][VerifyNext]_vars


\* ------------------------------------------------------ validator calls
ValidatorInit ==
    /\ db = [t \in Tables |-> [p \in Recs |-> Absent]]
    /\ affected_models = <<>>
    /\ LifeFresh
    /\ BatchIdle
    /\ MigrationLog = FALSE

\* the validator is set up first and used then: validate_record and
\* validate_batch read self.rules and write nothing to the validator, so
\* one call after the registration shows what any call returns.

\* add_rule(field, f, severity)
add_rule(field, f, severity) ==
    /\ validated = NoCall
    /\ Len(rules) < MaxRules
    /\ rules' = Append(rules, new_rule(field, f, severity))
    /\ validated' = NoCall
    /\ UNCHANGED <<lifeVars, selfVars, batchVars, rbVars, sessVars, moreVars, pre_warnings>>

\* validate_record(record)
call_validate_record(record) ==
    /\ validated = NoCall
    /\ validated' = [op |-> "record", records |-> <<record>>,
                     out |-> validate_record(rules, record)]
    /\ UNCHANGED <<lifeVars, selfVars, batchVars, rbVars, sessVars, moreVars, pre_warnings, rules>>

\* validate_batch(records)
call_validate_batch(records) ==
    /\ validated = NoCall
    /\ validated' = [op |-> "batch", records |-> records,
                     out |-> validate_batch(rules, records)]
    /\ UNCHANGED <<lifeVars, selfVars, batchVars, rbVars, sessVars, moreVars, pre_warnings, rules>>

Batches == UNION {[1..n -> Records] : n \in 0..MaxRecords}

ValidatorNext ==
    \/ \E field \in Fields, f \in RuleFuncs, severity \in Severities :
          add_rule(field, f, severity)
    \/ \E record \in Records : call_validate_record(record)
    \/ \E records \in Batches : call_validate_batch(records)

ValidatorSpec == ValidatorInit /\ [][ValidatorNext]_vars


\* ---------------------------------------------------------- the session
SessionRest == <<lifeVars, selfVars, batchVars, rbVars, valVars, statsVars,
                mgrMoreVars, profVars, storeSessVars, pre_warnings>>

\* the command module loaded: MigrationLog imported (lines 15-20) or None
SessionInit ==
    /\ db = [t \in Tables |-> [p \in Recs |-> Absent]]
    /\ affected_models = <<>>
    /\ LifeFresh
    /\ BatchIdle
    /\ MigrationLog \in BOOLEAN

\* handle up to the loop, lines 173-227; with nothing to run it returns
handle(sel, dr, er) ==
    /\ s_pc = "idle"
    /\ options' = [dry_run |-> dr, enable_rollback |-> er]
    /\ transformers_to_run' = sel
    /\ s_i' = 1
    /\ s_pc' = IF sel = <<>> THEN "returned" ELSE "try"
    /\ UNCHANGED <<SessionRest, MigrationLog, s_results, s_success, log_rows,
                   log_warnings, s_report, s_started, s_outcomes,
                   s_instantiated, s_safe_runs, log_failed, sessMoreVars>>

\* one iteration up to the end of its try statement, lines 229-296; r is how
\* the automatic rollback inside safe_run went, batch_failed whether a batch
\* of the run used up its retries
session_try(o, r, batch_failed) ==
    /\ s_pc = "try"
    /\ r # "none" => rollback_possible(o, options)
    /\ batch_failed => o # "init_raises"
    /\ LET key == transformers_to_run[s_i] IN
         /\ s_rollback' = [s_rollback EXCEPT ![key] = r]
         /\ s_errors' = [s_errors EXCEPT ![key] = safe_run_errors(o, r, batch_failed)]
         /\ s_summary' = [s_summary EXCEPT ![key] =
                             summary_status(o, safe_run_errors(o, r, batch_failed))]
    /\ LET key == transformers_to_run[s_i] IN
         /\ s_started' = Append(s_started, key)
         /\ s_outcomes' = [s_outcomes EXCEPT ![key] = o]
         /\ s_instantiated' = [s_instantiated EXCEPT ![key] = @ + 1]
         /\ s_safe_runs' = [s_safe_runs EXCEPT ![key] = @ \o safe_run_calls(o, options)]
         /\ s_results' = [s_results EXCEPT ![key] = try_result(o)]
         /\ s_success' = [success |-> try_result(o).success,
                          error_message |-> try_result(o).error]
    /\ s_pc' = "log"
    /\ UNCHANGED <<SessionRest, MigrationLog, options, transformers_to_run, s_i,
                   log_rows, log_warnings, s_report, log_failed>>

\* the rest of the iteration, lines 298-314: the outcome record is handed to
\* MigrationLog when there is one and the session is no dry run
session_log(created) ==
    /\ s_pc = "log"
    /\ LET key == transformers_to_run[s_i] IN
         IF should_log(MigrationLog, options.dry_run)
         THEN LET l == log_outcome(s_results, log_warnings, key, created) IN
              /\ s_results' = l.results
              /\ log_warnings' = l.warnings
              /\ log_rows' = IF created
                             THEN Append(log_rows,
                                    [transformer |-> key,
                                     dry_run |-> options.dry_run,
                                     success |-> s_success.success,
                                     error_message |->
                                        IF s_success.success THEN "None"
                                        ELSE s_success.error_message])
                             ELSE log_rows
              /\ log_failed' = IF created THEN log_failed ELSE log_failed \cup {key}
         ELSE /\ created
              /\ UNCHANGED <<s_results, log_warnings, log_rows, log_failed>>
    /\ s_pc' = next_transformer(s_i, Len(transformers_to_run), s_success.success)
    /\ s_i' = s_i + 1
    /\ UNCHANGED <<SessionRest, MigrationLog, options, transformers_to_run,
                   s_success, s_report, s_started, s_outcomes, s_instantiated,
                   s_safe_runs, sessMoreVars>>

\* the final summary, lines 316-324
session_summary ==
    /\ s_pc = "summary"
    /\ LET entered == {k \in TransformerKeys : s_results[k] # NoResult}
           successful == Cardinality({k \in entered : s_results[k].success})
       IN s_report' = [successful |-> successful,
                       failed |-> Cardinality(entered) - successful]
    /\ s_pc' = "done"
    /\ UNCHANGED <<SessionRest, MigrationLog, options, transformers_to_run, s_i,
                   s_results, s_success, log_rows, log_warnings, s_started,
                   s_outcomes, s_instantiated, s_safe_runs, log_failed,
                   sessMoreVars>>

SessionNext ==
    \/ \E sel \in Selections, dr \in BOOLEAN, er \in BOOLEAN : handle(sel, dr, er)
    \/ \E o \in TryOutcomes, r \in RollbackOutcomes, batch_failed \in BOOLEAN :
          session_try(o, r, batch_failed)
    \/ \E created \in BOOLEAN : session_log(created)
    \/ session_summary

SessionSpec == SessionInit /\ [][SessionNext]_vars


\* -------------------------------------------------- the utility methods
StatsInit ==
    /\ db = [t \in Tables |-> [p \in Recs |-> Absent]]
    /\ affected_models = <<>>
    /\ LifeFresh
    /\ BatchIdle
    /\ MigrationLog = FALSE

StatsRest == <<lifeVars, warnings, metrics, batchVars, rbVars, valVars, sessVars,
               mgrMoreVars, sessMoreVars, profVars, storeSessVars, pre_warnings>>

\* extract_data(model_class) iterated: total_count records are found
extract_data(total_count) ==
    /\ stat_ops < MaxStatOps
    /\ stat_ops' = stat_ops + 1
    /\ stats' = stats_extract_data(stats, total_count)
    /\ stats_high' = high_water(stats_high, stats')
    /\ UNCHANGED <<StatsRest, errors>>

\* bulk_create_with_logging(model_class, instances, batch_size=1) with total
\* instances, of which created_count are created and the others fail
bulk_create_with_logging(total, created_count) ==
    /\ stat_ops < MaxStatOps
    /\ created_count <= total
    /\ stat_ops' = stat_ops + 1
    /\ stats' = stats_bulk_create(stats, total, created_count)
    /\ stats_high' = high_water(stats_high, stats')
    /\ errors' = log_errors(errors, "Error creating batch", total - created_count)
    /\ UNCHANGED StatsRest

\* get_or_create_with_logging(model_class, **lookup): the record is created,
\* found, or the lookup raises
get_or_create_with_logging(o) ==
    /\ stat_ops < MaxStatOps
    /\ stat_ops' = stat_ops + 1
    /\ stats' = stats_get_or_create(stats, o)
    /\ stats_high' = high_water(stats_high, stats')
    /\ errors' = IF o = "raises" THEN log_error(errors, "Error getting or creating")
                 ELSE errors
    /\ UNCHANGED StatsRest

StatsNext ==
    \/ \E n \in 0..MaxCount : extract_data(n)
    \/ \E n \in 0..MaxCount, c \in 0..MaxCount : bulk_create_with_logging(n, c)
    \/ \E o \in {"created", "existing", "raises"} : get_or_create_with_logging(o)

StatsSpec == StatsInit /\ [][StatsNext]_vars

\* ------------------------------------------------ batch_process_with_retry
\* variant: retried_batches counting the retries instead of the batch
process_batch_attempt_CountsRetries(res, att, maxr, blen, ok) ==
    IF ok
    THEN [results |-> [res EXCEPT !.successful_batches = @ + 1,
                                  !.total_records = @ + blen,
                                  !.retried_batches = @ + att],
          finished |-> TRUE, raised |-> FALSE, slept |-> FALSE, log |-> "none"]
    ELSE IF att < maxr
    THEN [results |-> res,
          finished |-> FALSE, raised |-> FALSE, slept |-> TRUE, log |-> "warning"]
    ELSE [results |-> [res EXCEPT !.failed_batches = @ + 1],
          finished |-> TRUE, raised |-> FALSE, slept |-> FALSE, log |-> "error"]

\* variant: the last failure of a batch raised again after it is counted
process_batch_attempt_Reraises(res, att, maxr, blen, ok) ==
    IF ok
    THEN [results |-> [res EXCEPT !.successful_batches = @ + 1,
                                  !.total_records = @ + blen,
                                  !.retried_batches = IF att > 0 THEN @ + 1 ELSE @],
          finished |-> TRUE, raised |-> FALSE, slept |-> FALSE, log |-> "none"]
    ELSE IF att < maxr
    THEN [results |-> res,
          finished |-> FALSE, raised |-> FALSE, slept |-> TRUE, log |-> "warning"]
    ELSE [results |-> [res EXCEPT !.failed_batches = @ + 1],
          finished |-> TRUE, raised |-> TRUE, slept |-> FALSE, log |-> "error"]

\* one pass of the loop body of _process_batch_with_retry (lines 450-465):
\* variant: the retry delay taken after the last failed attempt too
process_batch_attempt_SleepsAfterLast(res, att, maxr, blen, ok) ==
    IF ok
    THEN [results |-> [res EXCEPT !.successful_batches = @ + 1,
                                  !.total_records = @ + blen,
                                  !.retried_batches = IF att > 0 THEN @ + 1 ELSE @],
          finished |-> TRUE, raised |-> FALSE, slept |-> FALSE, log |-> "none"]
    ELSE IF att < maxr
    THEN [results |-> res,
          finished |-> FALSE, raised |-> FALSE, slept |-> TRUE, log |-> "warning"]
    ELSE [results |-> [res EXCEPT !.failed_batches = @ + 1],
          finished |-> TRUE, raised |-> FALSE, slept |-> TRUE, log |-> "error"]

\* attempt number att of a batch of blen items, process_func returning
\* (ok) or raising. finished: the loop is left; raised: an exception
\* leaves _process_batch_with_retry.
process_batch_attempt(res, att, maxr, blen, ok) ==
    IF ok
    THEN [results |-> [res EXCEPT !.successful_batches = @ + 1,
                                  !.total_records = @ + blen,
                                  !.retried_batches = IF att > 0 THEN @ + 1 ELSE @],
          finished |-> TRUE, raised |-> FALSE, slept |-> FALSE, log |-> "none"]
    ELSE IF att < maxr
    THEN [results |-> res,
          finished |-> FALSE, raised |-> FALSE, slept |-> TRUE, log |-> "warning"]
    ELSE [results |-> [res EXCEPT !.failed_batches = @ + 1],
          finished |-> TRUE, raised |-> FALSE, slept |-> FALSE, log |-> "error"]

\* variant: the comparison of line 436 off by one
batch_full_OffByOne(blen, bsize) == blen > bsize

\* lines 436 and 442: is the batch collected so far handed on?
batch_full(blen, bsize) == blen >= bsize

\* lines 439 and 444
count_batch(res) == [res EXCEPT !.total_batches = @ + 1]

\* a transformer just constructed, about to process a source of source_n
\* items with the configured batch size and retry limit
BatchInit ==
    /\ db = [t \in Tables |-> [p \in Recs |-> Absent]]
    /\ affected_models = <<>>
    /\ LifeFresh
    /\ MigrationLog = FALSE
    /\ source_n \in 0..MaxN /\ batch_size \in 1..MaxB /\ max_retries \in 0..MaxR
    /\ bpc = "idle"
    /\ results = ZeroResults
    /\ batch_len = 0 /\ pos = 0 /\ attempt = 0 /\ final = FALSE
    /\ calls = 0 /\ sleeps = 0 /\ batch_log = <<>>
    /\ results_before = results

\* lines 420-432
batch_process_with_retry ==
    /\ bpc = "idle"
    /\ results' = ZeroResults
    /\ batch_len' = 0 /\ pos' = 0
    /\ bpc' = "iter"
    /\ UNCHANGED <<lifeVars, extVars, selfVars, source_n, batch_size, max_retries,
                   attempt, final, calls, sleeps, batch_log, results_before>>

\* lines 433-436: the next item of the source joins the batch
next_item ==
    /\ bpc = "iter"
    /\ pos < source_n
    /\ pos' = pos + 1
    /\ batch_len' = batch_len + 1
    /\ IF batch_full(batch_len + 1, batch_size)
       THEN bpc' = "process" /\ attempt' = 0 /\ final' = FALSE
            /\ results_before' = results
       ELSE UNCHANGED <<bpc, attempt, final, results_before>>
    /\ UNCHANGED <<lifeVars, extVars, selfVars, source_n, batch_size, max_retries,
                   results, calls, sleeps, batch_log>>

\* lines 441-446: the source is exhausted
source_exhausted ==
    /\ bpc = "iter"
    /\ pos = source_n
    /\ IF batch_len > 0
       THEN bpc' = "process" /\ attempt' = 0 /\ final' = TRUE
            /\ results_before' = results
       ELSE bpc' = "done" /\ UNCHANGED <<attempt, final, results_before>>
    /\ UNCHANGED <<lifeVars, extVars, selfVars, source_n, batch_size, max_retries,
                   results, batch_len, pos, calls, sleeps, batch_log>>

\* one call of process_func on the current batch, returning (ok) or raising,
\* and what follows it up to the next call
process_func(ok) ==
    /\ bpc = "process"
    /\ LET o == process_batch_attempt(results, attempt, max_retries, batch_len, ok) IN
         /\ calls' = calls + 1
         /\ metrics' = profile_attempt(metrics, attempt)
         /\ warnings' = IF o.log = "warning"
                        THEN log_warning(warnings, "Batch processing failed")
                        ELSE warnings
         /\ errors' = IF o.log = "error"
                      THEN log_error(errors, "Batch processing failed after all attempts")
                      ELSE errors
         /\ sleeps' = IF o.slept THEN sleeps + 1 ELSE sleeps
         /\ IF o.raised
            THEN /\ bpc' = "raised"
                 /\ results' = o.results
                 /\ UNCHANGED <<attempt, batch_len, batch_log>>
            ELSE IF o.finished
            THEN /\ results' = count_batch(o.results)
                 /\ batch_log' = Append(batch_log,
                        [size |-> batch_len, fails |-> IF ok THEN attempt ELSE attempt + 1,
                         ok |-> ok])
                 /\ batch_len' = 0
                 /\ attempt' = 0
                 /\ bpc' = IF final THEN "done" ELSE "iter"
            ELSE /\ results' = o.results
                 /\ attempt' = attempt + 1
                 /\ UNCHANGED <<bpc, batch_len, batch_log>>
    /\ UNCHANGED <<lifeVars, extVars, source_n, batch_size, max_retries, pos, final,
                   results_before>>

BatchNext ==
    \/ batch_process_with_retry
    \/ next_item
    \/ source_exhausted
    \/ \E ok \in BOOLEAN : process_func(ok)

BatchSpec == BatchInit /\ [][BatchNext]_vars

\* ------------------------------------------- a session over the storage
\* handle, lines 229-250, with the storage followed: a transformer is
\* constructed for each key (BaseTransformer.__init__ gives it its own
\* errors, warnings, profiler and rollback manager) and safe_run is called
\* on it once, with dry_run false and the session's enable_rollback
StoreSessionInit ==
    /\ db \in {d \in [Tables -> [Recs -> {"old", Absent}]] :
                  \A t \in Tables, p \in Recs \ PKs : d[t][p] = Absent}
    /\ affected_models = <<>>
    /\ LifeFresh
    /\ BatchIdle
    /\ MigrationLog = FALSE

\* TransformerClass() for the next key; models is the affected_models
\* attribute of its class
instantiate(er, models) ==
    /\ pc = "idle"
    /\ instances < MaxTransformers
    /\ instances > 0 => (outcome # NoOutcome /\ er = session_rollback)
    /\ instances' = instances + 1
    /\ session_rollback' = er
    /\ successes' = IF outcome.kind = "returned" THEN successes + 1 ELSE successes
    /\ committed' = IF outcome.kind = "returned" THEN db ELSE committed
    /\ affected_models' = models
    /\ errors' = <<>> /\ warnings' = <<>>
    /\ metrics' = [total_migration |-> 0, attempts |-> [a \in 0..MaxR |-> 0]]
    /\ migration_id' = -1
    /\ snapshots' = <<>>
    /\ dry_run' = FALSE /\ enable_rollback' = FALSE
    /\ snapshot' = <<>>
    /\ pre_db' = db
    /\ outcome' = NoOutcome
    /\ snapshot_calls' = 0 /\ snapshot_made' = 0
    /\ rollback_calls' = 0 /\ rollback_result' = "none"
    /\ run_started' = FALSE /\ run_outcome' = "none"
    /\ pre_errors' = <<>> /\ pre_warnings' = <<>>
    /\ runs' = 0 /\ writes' = 0
    /\ UNCHANGED <<storeVars, clock, pc, batchVars, rbVars, valVars, sessVars,
                   statsVars, mgrMoreVars, sessMoreVars, profVars>>

\* line 249: safe_run on the transformer just constructed
session_safe_run ==
    /\ instances > 0 /\ runs = 0
    /\ safe_run(FALSE, session_rollback)

StoreSessionNext ==
    \/ Tick
    \/ \E er \in BOOLEAN, models \in AffectedChoices : instantiate(er, models)
    \/ session_safe_run
    \/ create_snapshot
    \/ \E truncated \in BOOLEAN : create_snapshot_fails(truncated)
    \/ run_enter
    \/ \E t \in Tables, p \in PKs, v \in Vals \cup {Absent} : run_write(t, p, v)
    \/ run_returns
    \/ run_raises
    \/ \E k \in 0..(MaxRec * Cardinality(Tables)) : automatic_rollback(k)

StoreSessionSpec == StoreSessionInit /\ [][StoreSessionNext]_vars

\* ------------------------------------------------- the profiler's scopes
ProfRest == <<lifeVars, errors, warnings, source_n, batch_size, max_retries, bpc,
              results, batch_len, pos, final, sleeps, batch_log, results_before,
              rbVars, valVars, sessVars, statsVars, mgrMoreVars, sessMoreVars,
              storeSessVars, pre_warnings>>

ProfilerInit ==
    /\ db = [t \in Tables |-> [p \in Recs |-> Absent]]
    /\ affected_models = <<>>
    /\ LifeFresh
    /\ MigrationLog = FALSE
    /\ source_n = 0 /\ batch_size = 1 /\ max_retries \in 0..MaxR
    /\ bpc = "idle"
    /\ results = ZeroResults
    /\ batch_len = 0 /\ pos = 0 /\ attempt = 0 /\ final = FALSE
    /\ calls = 0 /\ sleeps = 0 /\ batch_log = <<>>
    /\ results_before = results

\* safe_run up to the call of run, base.py 46-77: the scope total_migration
\* is entered
prof_safe_run ==
    /\ scopes = <<>> /\ attempt = 0
    /\ scope_entries.total_migration < MaxRuns
    /\ scopes' = <<TotalScope>>
    /\ scope_entries' = scope_entered(scope_entries, TotalScope)
    /\ UNCHANGED <<ProfRest, metrics, calls, attempt, raised_exits>>

\* run returns or raises between two batches: the scope is left
prof_run_exit(raised) ==
    /\ scopes = <<TotalScope>> /\ attempt = 0
    /\ scopes' = <<>>
    /\ metrics' = profile_operation(metrics, TotalScope, raised)
    /\ raised_exits' = IF raised THEN raised_exits + 1 ELSE raised_exits
    /\ UNCHANGED <<ProfRest, scope_entries, calls, attempt>>

\* _process_batch_with_retry, base.py 450-452: the scope of the attempt is
\* entered and process_func called, inside run or by a direct caller
prof_attempt_enter ==
    /\ scopes \in {<<>>, <<TotalScope>>}
    /\ calls < MaxProcessCalls
    /\ scopes' = Append(scopes, AttemptScope(attempt))
    /\ scope_entries' = scope_entered(scope_entries, AttemptScope(attempt))
    /\ calls' = calls + 1
    /\ UNCHANGED <<ProfRest, metrics, attempt, raised_exits>>

\* process_func returns (ok) or raises: the scope of the attempt is left,
\* and the batch is over or goes to its next attempt
prof_attempt_exit(ok) ==
    /\ scopes # <<>> /\ scopes[Len(scopes)] = AttemptScope(attempt)
    /\ scopes' = SubSeq(scopes, 1, Len(scopes) - 1)
    /\ metrics' = profile_operation(metrics, AttemptScope(attempt), ~ok)
    /\ raised_exits' = IF ok THEN raised_exits ELSE raised_exits + 1
    /\ attempt' = IF process_batch_attempt(results, attempt, max_retries, 0, ok).finished
                  THEN 0 ELSE attempt + 1
    /\ UNCHANGED <<ProfRest, scope_entries, calls>>

ProfilerNext ==
    \/ prof_safe_run
    \/ \E raised \in BOOLEAN : prof_run_exit(raised)
    \/ prof_attempt_enter
    \/ \E ok \in BOOLEAN : prof_attempt_exit(ok)

ProfilerSpec == ProfilerInit /\ [][ProfilerNext]_vars

\* ================================================================ claims
\* the safe_run call has ended
Exited == pc = "idle" /\ outcome.kind # "none"

CeilDiv(n, b) == (n + b - 1) \div b

RECURSIVE SumSizes(_)
SumSizes(log) == IF log = <<>> THEN 0 ELSE Head(log).size + SumSizes(Tail(log))

\* the batch that finished last, while no later batch has been handed on
LastBatch == batch_log[Len(batch_log)]
BetweenBatches == bpc \in {"iter", "done"} /\ batch_log # <<>>

\* C1: after a safe_run call with dry_run=True has ended, by return or by
\* exception, every table holds as many records as when it was called.
C1_DryRunKeepsCounts ==
    (Exited /\ dry_run) => \A t \in Tables : Count(db, t) = Count(pre_db, t)

\* C2: when run() raised, safe_run ends by raising that same exception, with
\* the error appended to the errors the transformer had before the call,
\* whatever the automatic rollback did; it never returns a result.
C2_OriginalErrorPropagates ==
    /\ (pc = "rollback") => outcome.kind = "none"
    /\ (pc = "idle" /\ run_outcome = "raised") =>
          /\ outcome = [kind |-> "raised", exc |-> "run_error"]
          /\ Len(errors) > Len(pre_errors)
          /\ SubSeq(errors, 1, Len(pre_errors)) = pre_errors
          /\ errors[Len(pre_errors) + 1] = "run_error"

\* C2 witness: run() raised, the rollback raised an exception of its own,
\* and safe_run has ended
C2_Witness ==
    pc = "idle" /\ run_outcome = "raised" /\ rollback_calls = 1
    /\ rollback_result = "raised"

\* C3: after a safe_run call that was no dry run and in which run() raised,
\* the storage holds what it held just before run() started.
C3_FailedRunRestoresStorage ==
    (pc = "idle" /\ run_outcome = "raised" /\ ~dry_run) => db = pre_db

\* C4: when batch_process_with_retry has returned, total_batches is
\* ceil(n/b) and successful_batches + failed_batches = total_batches; for an
\* empty source process_func was never called and all counters are zero; and
\* it never raises.
C4_BatchCounts ==
    /\ bpc # "raised"
    /\ (bpc = "done") =>
          /\ results.total_batches = CeilDiv(source_n, batch_size)
          /\ results.successful_batches + results.failed_batches
                = results.total_batches
          /\ (source_n = 0) => (calls = 0 /\ results = ZeroResults)

\* C4 witness: a source that does not divide into whole batches, with a
\* failed batch among several
C4_Witness ==
    bpc = "done" /\ source_n % batch_size # 0 /\ results.total_batches >= 2
    /\ results.failed_batches >= 1 /\ results.successful_batches >= 1

\* C5: a batch that failed on its first k attempts (1 <= k <= max_retries)
\* and then succeeded adds 1 to successful_batches, exactly 1 to
\* retried_batches and nothing to failed_batches.
C5_RetriedThenSucceeded ==
    (BetweenBatches /\ LastBatch.ok /\ LastBatch.fails >= 1) =>
        /\ LastBatch.fails <= max_retries
        /\ results.successful_batches = results_before.successful_batches + 1
        /\ results.retried_batches = results_before.retried_batches + 1
        /\ results.failed_batches = results_before.failed_batches

\* C5 witness: a batch that succeeded on its third attempt
C5_Witness == BetweenBatches /\ LastBatch.ok /\ LastBatch.fails = 2

\* C6: a batch that failed on all max_retries + 1 attempts adds 1 to
\* failed_batches, nothing is raised, and when the call has returned every
\* batch, hence every item of the source, was handed to process_func.
C6_ExhaustedBatchDoesNotAbort ==
    /\ bpc # "raised"
    /\ (BetweenBatches /\ ~LastBatch.ok) =>
          /\ LastBatch.fails = max_retries + 1
          /\ results.failed_batches = results_before.failed_batches + 1
          /\ results.successful_batches = results_before.successful_batches
    /\ (bpc = "done") =>
          /\ Len(batch_log) = CeilDiv(source_n, batch_size)
          /\ SumSizes(batch_log) = source_n

\* C6 witness: the call returned, and a batch that exhausted its attempts
\* was followed by a later batch
C6_Witness ==
    bpc = "done" /\ max_retries >= 1
    /\ \E i \in 1..(Len(batch_log) - 1) : ~batch_log[i].ok

\* C7: when batch_process_with_retry has returned, total_records is the
\* number of items of the source, whether their batches succeeded or failed.
C7_TotalRecordsCountsEveryBatch ==
    (bpc = "done") => results.total_records = source_n

\* C8: retried_batches is the number of batches whose first attempt failed
\* and that were attempted again (max_retries >= 1), whether they succeeded
\* in the end or exhausted their attempts.
C8_RetriedCountsEveryRetriedBatch ==
    (bpc \in {"iter", "done"}) =>
        results.retried_batches =
            Cardinality({i \in 1..Len(batch_log) :
                            batch_log[i].fails >= 1 /\ max_retries >= 1})

\* C9: safe_run asks the rollback manager to roll back exactly when run()
\* raised and create_snapshot had returned a snapshot in this call: once
\* then, and never after run() returned, in a dry run, with rollback
\* disabled, or when the snapshot was skipped or failed.
C9_RollbackExactlyWhenSnapshotAndFailure ==
    /\ rollback_calls <= 1
    /\ (pc = "rollback") => (run_outcome = "raised" /\ snapshot_made = 1)
    /\ (rollback_calls = 1) =>
          /\ run_outcome = "raised" /\ snapshot_made = 1
          /\ ~dry_run /\ enable_rollback
    /\ Exited => (rollback_calls = 1 <=> (run_outcome = "raised" /\ snapshot_made = 1))

\* C9 witness: run() raised after create_snapshot had failed, and safe_run
\* ended without a rollback
C9_Witness ==
    Exited /\ run_outcome = "raised" /\ snapshot_calls = 1 /\ snapshot_made = 0
    /\ enable_rollback /\ rollback_calls = 0

\* the condition under which C10 expects a snapshot
SnapshotWanted == enable_rollback /\ ~dry_run /\ affected_models # <<>>

\* C10 as amended: safe_run calls create_snapshot exactly when
\* enable_rollback is true, dry_run is false and affected_models is not
\* empty; the call is made once and has ended, by return or by exception,
\* before run() starts; a snapshot is created only by that call and only if
\* it returns.
C10_SnapshotCalledExactlyWhenWanted ==
    /\ (pc = "snapshot") => (~run_started /\ snapshot_calls = 0 /\ SnapshotWanted)
    /\ (pc # "idle" \/ outcome.kind # "none") =>
          /\ snapshot_made <= snapshot_calls
          /\ (snapshot # <<>>) <=> (snapshot_made = 1)
          /\ (pc # "snapshot") =>
                snapshot_calls = IF SnapshotWanted THEN 1 ELSE 0
          /\ (snapshot_made = 1) => SnapshotWanted

\* C10 witness: run() is under way after create_snapshot returned
C10_Witness ==
    pc = "running" /\ run_started /\ snapshot_calls = 1 /\ snapshot_made = 1

\* C10 as stated: once run() has started, a snapshot was created for this
\* call exactly when enable_rollback is true, dry_run is false and
\* affected_models is not empty.
C10_SnapshotCreatedExactlyWhenWanted ==
    run_started => ((snapshot_made = 1) <=> SnapshotWanted)

\* C11: when create_snapshot raises, safe_run appends exactly one warning,
\* adds nothing to errors, and goes on to execute run(); if safe_run then
\* raises, it raises the exception of run().
SnapshotFailed == snapshot_calls = 1 /\ snapshot_made = 0 /\ pc # "snapshot"

C11_SnapshotFailureIsAWarning ==
    SnapshotFailed =>
        /\ pc \in {"run", "running"} =>
              /\ Len(warnings) = Len(pre_warnings) + 1
              /\ SubSeq(warnings, 1, Len(pre_warnings)) = pre_warnings
              /\ errors = pre_errors
        /\ pc = "rollback" => FALSE
        /\ Exited =>
              /\ run_started
              /\ run_outcome # "none"
              /\ outcome.kind = "raised" =>
                    run_outcome = "raised" /\ outcome.exc = "run_error"

C11_Witness ==
    SnapshotFailed /\ Exited /\ outcome.kind = "returned" /\ pre_warnings # <<>>

\* C15: every snapshot held by the rollback manager has a backup location
\* whose artifact was completely written, and a recorded count for each of
\* its affected tables.
C15_HeldSnapshotsHaveCompleteArtifacts ==
    \A i \in 1..Len(snapshots) :
        LET s == snapshots[i] IN
        /\ files[s.backup_location].state = "ok"
        /\ DOMAIN s.record_counts =
              {s.affected_tables[j] : j \in 1..Len(s.affected_tables)}

\* the snapshot the last rollback_migration call found, and what its backup
\* file holds for a model
RolledBackTo == find_snapshot(snapshots, rb.mid)[1]

RECURSIVE BackupOf(_, _)
BackupOf(data, t) ==
    IF data = <<>> THEN <<>>
    ELSE IF Head(data).model_name = t THEN Head(data).objects
    ELSE BackupOf(Tail(data), t)

\* C12: after rollback_migration (restore_backup) returned success, every
\* affected collection holds exactly the records captured in the snapshot,
\* and its record count is the count recorded in the snapshot.
C12_RestoreLeavesExactlyTheSnapshot ==
    rb.result = "true" =>
        \A j \in 1..Len(RolledBackTo.affected_tables) :
            LET t == RolledBackTo.affected_tables[j] IN
            /\ Count(db, t) = RolledBackTo.record_counts[t]
            /\ serialize(db, t) =
                  BackupOf(files[RolledBackTo.backup_location].data, t)

\* C14: a restore that fails partway leaves none of its writes in storage
\* and rollback_migration does not report success; it reports success only
\* after every object of the backup has been saved.
C14_RestoreIsAllOrNothing ==
    /\ rb.result \in {"raised", "false"} => db = rb.db
    /\ rb.result = "true" =>
          /\ rb.saved = rb.objects
          /\ LET objs == backup_objects(files[RolledBackTo.backup_location].data)
             IN \A i \in 1..Len(objs) :
                    db[objs[i].model][objs[i].pk] = objs[i].fields

\* a restore stopped after a save that changed a record
C14_Witness ==
    /\ rb.result \in {"raised", "false"}
    /\ rb.saved >= 1 /\ rb.saved < rb.objects
    /\ SaveFirst(rb.db,
                 backup_objects(files[RolledBackTo.backup_location].data),
                 rb.saved) # rb.db

\* C13: a snapshot is created and rollback_migration (restore_backup) is
\* called with nothing changed in the affected collections in between (the
\* transaction of the failed run() was rolled back); when it returns success
\* every affected collection's record count is the count recorded in the
\* snapshot just created.
C13_ImmediateRollbackKeepsCounts ==
    (Exited /\ snapshot_made = 1 /\ rollback_calls = 1
        /\ rollback_result = "true") =>
        \A j \in 1..Len(snapshot[1].affected_tables) :
            LET t == snapshot[1].affected_tables[j] IN
            Count(db, t) = snapshot[1].record_counts[t]

\* the results of record i of a validated batch, cut out of
\* validation_results by position
ResultsOf(i) ==
    SubSeq(validated.out.validation_results,
           (i - 1) * Len(rules) + 1, i * Len(rules))

FailsAt(i, severity) ==
    \E k \in 1..Len(rules) :
        ResultsOf(i)[k].severity = severity /\ ~ResultsOf(i)[k].is_valid

BatchRecords == 1..Len(validated.records)

\* C16: validate_batch counts every record in exactly one class: with errors
\* if one of its ERROR results is invalid, else with warnings if one of its
\* WARNING results is invalid, else valid; the three counts add up to
\* total_records.
C16_EveryRecordInExactlyOneClass ==
    validated.op = "batch" =>
        LET o == validated.out
            E == {i \in BatchRecords : FailsAt(i, "ERROR")}
            W == {i \in BatchRecords : ~FailsAt(i, "ERROR") /\ FailsAt(i, "WARNING")}
        IN /\ o.total_records = Len(validated.records)
           /\ o.records_with_errors = Cardinality(E)
           /\ o.records_with_warnings = Cardinality(W)
           /\ o.valid_records = Cardinality(BatchRecords \ (E \cup W))
           /\ o.valid_records + o.records_with_errors + o.records_with_warnings
                = o.total_records

\* a record failing an ERROR rule and a WARNING rule, next to a record
\* failing the WARNING rule only
C16_Witness ==
    /\ validated.op = "batch" /\ Len(validated.records) = 2 /\ Len(rules) = 2
    /\ FailsAt(1, "ERROR") /\ FailsAt(1, "WARNING")
    /\ ~FailsAt(2, "ERROR") /\ FailsAt(2, "WARNING")

\* the call rule k makes on the record at position i of the validated input
CallOf(i, k) ==
    rule_func(rules[k].rule_func, record_get(validated.records[i], rules[k].field))

ResultAt(i, k) ==
    IF validated.op = "batch" THEN validated.out.validation_results[(i - 1) * Len(rules) + k]
    ELSE validated.out[k]

ResultCount ==
    IF validated.op = "batch" THEN Len(validated.out.validation_results)
    ELSE Len(validated.out)

\* C17: a predicate that raises gives one result with is_valid false,
\* severity ERROR whatever the rule's severity, and the exception's message;
\* the rules and records after it are still evaluated.
C17_RaisingPredicateGivesErrorResult ==
    validated.op # "none" =>
        /\ ResultCount = Len(validated.records) * Len(rules)
        /\ \A i \in BatchRecords, k \in 1..Len(rules) :
              CallOf(i, k).raised =>
                  /\ ~ResultAt(i, k).is_valid
                  /\ ResultAt(i, k).severity = "ERROR"
                  /\ ResultAt(i, k).message = <<"Validation error: ", CallOf(i, k).exc>>
                  /\ ResultAt(i, k).rule_name = rules[k].name

\* a WARNING rule raises on the first record of a batch, before another rule
\* and another record
C17_Witness ==
    /\ validated.op = "batch" /\ Len(validated.records) = 2 /\ Len(rules) = 2
    /\ CallOf(1, 1).raised /\ rules[1].severity = "WARNING"
    /\ ~CallOf(1, 2).raised /\ ~CallOf(2, 1).raised
    /\ validated.out.records_with_errors = 1

\* C18: validate_record returns one result per registered rule, in
\* registration order, also for several rules on one field and for a field
\* missing from the record; validate_batch's validation_results has
\* records x rules entries, record by record.
C18_OneResultPerRuleInOrder ==
    validated.op # "none" =>
        /\ ResultCount = Len(validated.records) * Len(rules)
        /\ \A i \in BatchRecords, k \in 1..Len(rules) :
              /\ ResultAt(i, k).rule_name = rules[k].name
              /\ ResultAt(i, k).field = rules[k].field
              /\ ResultAt(i, k).value = record_get(validated.records[i], rules[k].field)

\* two different rules on one field, the first failing, the field missing
C18_Witness ==
    /\ validated.op = "record" /\ Len(rules) = 2
    /\ rules[1].field = rules[2].field /\ rules[1].name # rules[2].name
    /\ validated.records[1][rules[1].field] = Missing
    /\ ~validated.out[1].is_valid

Selected == {transformers_to_run[i] : i \in 1..Len(transformers_to_run)}

\* C19 as amended: the session takes the selected transformers one after
\* the other in selection order, also after failures; each is instantiated
\* exactly once and its safe_run is called exactly once unless its
\* constructor raised, in which case it is not run and counts as failed; at
\* the end successful + failed is the number of selected transformers.
C19_EveryTransformerAttemptedOnce ==
    /\ Len(s_started) <= Len(transformers_to_run)
    /\ s_started = SubSeq(transformers_to_run, 1, Len(s_started))
    /\ s_pc = "done" =>
          /\ s_started = transformers_to_run
          /\ \A k \in TransformerKeys :
                /\ s_instantiated[k] = IF k \in Selected THEN 1 ELSE 0
                /\ Len(s_safe_runs[k]) =
                      IF k \in Selected /\ s_outcomes[k] # "init_raises" THEN 1 ELSE 0
          /\ s_report.successful =
                Cardinality({k \in Selected : s_outcomes[k] = "returns"})
          /\ s_report.successful + s_report.failed = Len(transformers_to_run)

\* the first of two transformers fails in safe_run, the second is run
C19_Witness ==
    /\ s_pc = "done" /\ Len(transformers_to_run) = 2
    /\ s_outcomes[transformers_to_run[1]] = "run_raises"
    /\ s_outcomes[transformers_to_run[2]] = "returns"
    /\ s_report = [successful |-> 1, failed |-> 1]

\* C19 as stated: at the end of a session every selected transformer has
\* been run exactly once, and successful + failed is their number.
C19_EveryTransformerRunOnce ==
    s_pc = "done" =>
        /\ \A k \in Selected : Len(s_safe_runs[k]) = 1
        /\ s_report.successful + s_report.failed = Len(transformers_to_run)

\* C20: when the outcome record of a transformer cannot be persisted, one
\* warning is logged, the transformer's entry in the session results is
\* what its try block recorded, and the remaining transformers still run.
C20_LogFailureOnlyWarns ==
    /\ log_warnings = Cardinality(log_failed)
    /\ \A k \in log_failed : s_results[k] = try_result(s_outcomes[k])
    /\ s_pc = "done" =>
          /\ s_started = transformers_to_run
          /\ s_report.successful =
                Cardinality({k \in Selected : s_outcomes[k] = "returns"})

\* the record of the first, successful transformer is not persisted; the
\* second one runs and its record is
C20_Witness ==
    /\ s_pc = "done" /\ Len(transformers_to_run) = 2
    /\ log_failed = {transformers_to_run[1]}
    /\ s_results[transformers_to_run[1]].success
    /\ Len(s_safe_runs[transformers_to_run[2]]) = 1
    /\ Len(log_rows) = 1

\* C22: no utility call decreases a statistics counter: every counter is at
\* least every value it held earlier in the run.
C22_CountersNeverDecrease ==
    \A k \in Counters : stats[k] >= stats_high[k]

\* the process_func calls made on a finished batch
CallsOf(b) == b.fails + (IF b.ok THEN 1 ELSE 0)

RECURSIVE SumCalls(_)
SumCalls(log) == IF log = <<>> THEN 0 ELSE CallsOf(Head(log)) + SumCalls(Tail(log))

\* the failed calls made so far on the batch being processed
InProgress == IF bpc = "process" THEN attempt ELSE 0

\* C26: every batch gets between 1 and max_retries + 1 calls of the
\* processing function, none after a call that succeeded; the retry delay is
\* taken once after every failed call but the last one allowed; the calls of
\* a batch are all made before the next batch's first call.
C26_AttemptsAndDelaysPerBatch ==
    /\ \A i \in 1..Len(batch_log) :
          /\ CallsOf(batch_log[i]) >= 1
          /\ CallsOf(batch_log[i]) <= max_retries + 1
          /\ batch_log[i].ok => batch_log[i].fails <= max_retries
          /\ ~batch_log[i].ok => batch_log[i].fails = max_retries + 1
    /\ InProgress <= max_retries
    /\ calls = SumCalls(batch_log) + InProgress
    /\ sleeps = (SumCalls(batch_log) - Len(batch_log)) + InProgress

\* a batch that used up its attempts, followed by one that succeeded on a
\* retry
C26_Witness ==
    /\ bpc = "done" /\ Len(batch_log) >= 2 /\ max_retries >= 1
    /\ ~batch_log[1].ok
    /\ batch_log[2].ok /\ batch_log[2].fails >= 1

\* C27: every run has its own migration id: no two snapshots held by the
\* transformer carry the same id, and the snapshot rollback_migration finds
\* for a failed run is the one that run created (the last one of the list),
\* never one of an earlier run.
C27_MigrationIdsAreUnique ==
    /\ \A i, j \in 1..Len(snapshots) :
          i # j => snapshots[i].migration_id # snapshots[j].migration_id
    /\ (Exited /\ snapshot_made = 1 /\ rollback_calls = 1) =>
          \A i \in 1..(Len(snapshots) - 1) :
              snapshots[i].migration_id # migration_id

\* the reported discrepancies of the last verify_rollback call
Reported ==
    {verification.discrepancies[i] : i \in 1..Len(verification.discrepancies)}

\* C23: verify_rollback reports a discrepancy for exactly the collections
\* of the snapshot whose current record count differs from the count the
\* snapshot recorded.
C23_VerifyReportsExactlyTheDifferences ==
    verification.status = "success" =>
        LET snap == find_snapshot(snapshots, verification.migration_id)[1] IN
        Reported = {t \in DOMAIN snap.record_counts :
                        Count(db, t) # snap.record_counts[t]}

\* C24: rollback_migration for an existing snapshot with an unknown
\* strategy name raises a configuration error naming that strategy to the
\* caller, returns no value and changes no storage.
C24_UnknownStrategyIsAConfigurationError ==
    (strategy_call.found /\ strategy_call.strategy \notin KnownStrategies
        /\ strategy_call.strategy # "none") =>
        /\ strategy_call.result = "raised"
        /\ strategy_call.exc = [type |-> "ValueError", names |-> strategy_call.strategy]
        /\ ~strategy_call.changed

\* the transformers of the session whose try block ended in the handler
FailedKeys == {k \in TransformerKeys : s_outcomes[k] \notin {"none", "returns"}}

\* C21: for every transformer that failed, the reported result tells
\* whether its rollback succeeded: a failure whose rollback succeeded and a
\* failure whose rollback failed have different entries in the results.
C21_FailureReportsRollback ==
    \A k1, k2 \in FailedKeys :
        (s_rollback[k1] = "true" /\ s_rollback[k2] = "raised") =>
            s_results[k1] # s_results[k2]

\* a batch of the transformer's run used up its retries
BatchExhausted(k) ==
    \E i \in 1..Len(s_errors[k]) : s_errors[k][i] = "Batch processing failed"

\* C28: the summary status is 'failed' exactly when the transformer's errors
\* list is non-empty, however safe_run ended: 'failed' for every run in which
\* safe_run raised, and 'failed' too for a run that returned after a batch
\* used up its retries, which the session counts as successful.
C28_StatusFollowsErrors ==
    \A k \in TransformerKeys :
        /\ (get_migration_summary_status(s_errors[k]) = "failed") <=> (s_errors[k] # <<>>)
        /\ s_outcomes[k] = "run_raises" =>
              get_migration_summary_status(s_errors[k]) = "failed"
        /\ s_outcomes[k] = "returns" =>
              /\ s_summary[k] = get_migration_summary_status(s_errors[k])
              /\ s_summary[k] = (IF s_errors[k] = <<>> THEN "completed" ELSE "failed")
              /\ BatchExhausted(k) => (s_summary[k] = "failed" /\ s_results[k].success)

\* a session that ended counting as successful a transformer whose summary
\* says 'failed', next to one whose safe_run raised
C28_Witness ==
    /\ s_pc = "done" /\ s_report.successful >= 1
    /\ \E k \in TransformerKeys :
          /\ s_outcomes[k] = "returns" /\ BatchExhausted(k)
          /\ s_summary[k] = "failed" /\ s_results[k].success
    /\ \E k \in TransformerKeys : s_outcomes[k] = "run_raises"

\* the iterations of the session that are over
Finished == IF s_i = 0 THEN 0 ELSE s_i - 1

\* C30: an outcome record is handed to MigrationLog only outside a dry run,
\* one for each transformer whose iteration is over and none for any other;
\* in a dry run nothing is handed over, and every stored row has its dry_run
\* flag false.
C30_OutcomeRecordsOnlyOutsideDryRun ==
    /\ options.dry_run =>
          (log_rows = <<>> /\ log_failed = {} /\ log_warnings = 0)
    /\ \A i \in 1..Len(log_rows) :
          /\ ~log_rows[i].dry_run
          /\ \E j \in 1..Finished : transformers_to_run[j] = log_rows[i].transformer
          /\ log_rows[i].transformer \notin log_failed
          /\ \A j \in 1..Len(log_rows) :
                i # j => log_rows[i].transformer # log_rows[j].transformer
    /\ \A k \in log_failed : \E j \in 1..Finished : transformers_to_run[j] = k
    /\ Len(log_rows) + Cardinality(log_failed) =
          (IF MigrationLog /\ ~options.dry_run THEN Finished ELSE 0)

\* a session that is no dry run, over with a row stored for a transformer
\* that succeeded and one for a transformer that failed
C30_Witness ==
    /\ s_pc = "done" /\ MigrationLog /\ ~options.dry_run
    /\ \E i, j \in 1..Len(log_rows) : log_rows[i].success /\ ~log_rows[j].success

\* the scopes of that name that are open
Open(scope) == Cardinality({i \in 1..Len(scopes) : scopes[i] = scope})

\* the samples or entries counted under the scope's name
CountOf(m, scope) ==
    IF scope.op = "total_migration" THEN m.total_migration ELSE m.attempts[scope.n]

RECURSIVE SumAttempts(_, _)
SumAttempts(m, a) == IF a < 0 THEN 0 ELSE m.attempts[a] + SumAttempts(m, a - 1)

\* C25: every scope entered has appended exactly one sample under its name
\* once it is left, by a return or by an exception; so with no scope open
\* there is one total_migration sample per safe_run call and one
\* batch_processing_attempt sample per call of the processing function.
C25_OneSamplePerScope ==
    /\ \A sc \in {TotalScope} \cup {AttemptScope(a) : a \in 0..MaxR} :
          CountOf(metrics, sc) = CountOf(scope_entries, sc) - Open(sc)
    /\ scopes = <<>> =>
          /\ metrics.total_migration = scope_entries.total_migration
          /\ SumAttempts(metrics, MaxR) = calls

\* two runs over, one of them left by an exception, with an attempt that
\* raised and was retried
C25_Witness ==
    /\ scopes = <<>> /\ metrics.total_migration = 2
    /\ raised_exits >= 2 /\ max_retries >= 1
    /\ metrics.attempts[1] >= 1

\* C29: in a session that is no dry run, when the safe_run of a transformer
\* has raised after earlier transformers succeeded, the storage is as the
\* last successful transformer left it: every record they committed is
\* there with the value committed.
C29_FailureKeepsEarlierCommits ==
    (Exited /\ outcome.kind = "raised" /\ successes >= 1) => db = committed

\* a transformer that wrote, failed and was restored from its snapshot,
\* after an earlier transformer committed a new value
C29_Witness ==
    /\ Exited /\ outcome.kind = "raised" /\ successes >= 1
    /\ writes >= 1 /\ rollback_result = "true"
    /\ \E t \in Tables, p \in PKs : committed[t][p] = "new"

====
